---- MODULE Spec2Model ----
(***************************************************************************)
(* Model of the cache_control stripping proxy (src/main.js).               *)
(*                                                                         *)
(* One Node.js process listens for HTTP requests.  For every request it    *)
(* accumulates the body, parses it as JSON, deletes truthy cache_control   *)
(* properties of messages[i].content[j] and system[i], re-serializes the   *)
(* document, forwards it over HTTPS and pipes the upstream response back.  *)
(*                                                                         *)
(* Text is modelled as a sequence of characters, a character being a       *)
(* one-letter string for ASCII and a code point name otherwise; bytes are  *)
(* the ASCII character itself or the name of a non-ASCII byte.             *)
(***************************************************************************)
EXTENDS Integers, Sequences, FiniteSets, TLC

(***************************************************************************)
(* JSON values (the result of JSON.parse, src/main.js:57).  An object is   *)
(* the ordered sequence of its own properties, as JavaScript keeps them.   *)
(***************************************************************************)
JNull == [t |-> "null", v |-> 0]

JBool(b) == [t |-> "bool", v |-> b]

JNum(n) == [t |-> "num", v |-> n]

JStr(s) == [t |-> "str", v |-> s]

JArr(xs) == [t |-> "arr", v |-> xs]

JObj(ps) == [t |-> "obj", v |-> ps]

Prop(k, x) == [k |-> k, v |-> x]

IsArray(x) == x.t = "arr"

IsObject(x) == x.t = "obj"

\* JavaScript's ToBoolean on a value that came out of JSON.parse, as the
\* conditions `if (data.messages)` and `if (block.cache_control)` apply it.
Truthy(x) ==
  CASE x.t = "undefined" -> FALSE
    [] x.t = "null" -> FALSE
    [] x.t = "bool" -> x.v
    [] x.t = "num" -> x.v # 0
    [] x.t = "str" -> x.v # <<>>
    [] OTHER -> TRUE

\* The value of a property read that finds nothing.
Undefined == [t |-> "undefined", v |-> 0]

HasKey(o, k) == IsObject(o) /\ \E n \in 1..Len(o.v) : o.v[n].k = k

KeyIndex(o, k) == CHOOSE n \in 1..Len(o.v) : o.v[n].k = k

\* The property read x.k for x other than null: own property of an object,
\* undefined for arrays, strings, numbers and booleans (none of the keys read
\* by the program is a built-in property of those).
GetProp(x, k) == IF HasKey(x, k) THEN x.v[KeyIndex(x, k)].v ELSE Undefined

\* [[Set]] on an object during parsing: a repeated key keeps its place and
\* takes the later value.
PutProp(ps, k, x) ==
  IF \E n \in 1..Len(ps) : ps[n].k = k
    THEN [n \in 1..Len(ps) |-> IF ps[n].k = k THEN Prop(k, x) ELSE ps[n]]
    ELSE Append(ps, Prop(k, x))

\* delete o.k
DeleteProp(o, k) == JObj(SelectSeq(o.v, LAMBDA p : p.k # k))

(***************************************************************************)
(* Characters and the names the program reads.                             *)
(***************************************************************************)
DigitChars == <<"0", "1", "2", "3", "4", "5", "6", "7", "8", "9">>

IsDigit(c) == \E d \in 1..10 : DigitChars[d] = c

DigitVal(c) == (CHOOSE d \in 1..10 : DigitChars[d] = c) - 1

Whitespace == {" ", "\n", "\t", "\r"}

K_messages == <<"m", "e", "s", "s", "a", "g", "e", "s">>

K_content == <<"c", "o", "n", "t", "e", "n", "t">>

K_system == <<"s", "y", "s", "t", "e", "m">>

K_cache_control == <<"c", "a", "c", "h", "e", "_", "c", "o", "n", "t", "r", "o", "l">>

K_error == <<"e", "r", "r", "o", "r">>

InvalidJSONText == <<"I", "n", "v", "a", "l", "i", "d", " ", "J", "S", "O", "N">>

(***************************************************************************)
(* UTF-8.  Buffer.byteLength(s) and proxyReq.write(s) encode a string;     *)
(* chunk.toString() decodes one chunk on its own, so a multi-byte          *)
(* character cut by a chunk boundary decodes to replacement characters.    *)
(* Sequences are mapped by halving, which keeps the evaluation shallow.    *)
(***************************************************************************)
EAcute == "U+00E9"

Replacement == "U+FFFD"

Utf8OfChar(c) ==
  CASE c = EAcute -> <<"0xC3", "0xA9">>
    [] c = Replacement -> <<"0xEF", "0xBF", "0xBD">>
    [] OTHER -> <<c>>

RECURSIVE Utf8EncodeRange(_, _, _)
Utf8EncodeRange(s, lo, hi) ==
  IF lo > hi THEN <<>>
  ELSE IF lo = hi THEN Utf8OfChar(s[lo])
  ELSE Utf8EncodeRange(s, lo, (lo + hi) \div 2)
         \o Utf8EncodeRange(s, (lo + hi) \div 2 + 1, hi)

Utf8Encode(s) == Utf8EncodeRange(s, 1, Len(s))

ByteLength(s) == Len(Utf8Encode(s))

ByteAt(b, i) == IF 1 <= i /\ i <= Len(b) THEN b[i] ELSE "none"

\* Byte i continues a sequence that an earlier lead byte began (a lead byte
\* never continues one, so this is decided by the two bytes before it).
Continues(b, i) ==
  \/ ByteAt(b, i - 1) = "0xC3" /\ b[i] = "0xA9"
  \/ ByteAt(b, i - 1) = "0xEF" /\ b[i] = "0xBF"
  \/ ByteAt(b, i - 2) = "0xEF" /\ ByteAt(b, i - 1) = "0xBF" /\ b[i] = "0xBD"

\* What the decoder emits at byte i: nothing for a byte that continues a
\* sequence, the character of a complete sequence, U+FFFD for a sequence
\* cut short and for a stray continuation byte.
DecodeAt(b, i) ==
  IF Continues(b, i) THEN <<>>
  ELSE IF b[i] = "0xC3"
    THEN IF ByteAt(b, i + 1) = "0xA9" THEN <<EAcute>> ELSE <<Replacement>>
  ELSE IF b[i] \in {"0xEF", "0xA9", "0xBF", "0xBD"} THEN <<Replacement>>
  ELSE <<b[i]>>

RECURSIVE Utf8DecodeRange(_, _, _)
Utf8DecodeRange(b, lo, hi) ==
  IF lo > hi THEN <<>>
  ELSE IF lo = hi THEN DecodeAt(b, lo)
  ELSE Utf8DecodeRange(b, lo, (lo + hi) \div 2)
         \o Utf8DecodeRange(b, (lo + hi) \div 2 + 1, hi)

\* Buffer.prototype.toString() with the default 'utf8' encoding.
BufferToString(b) == Utf8DecodeRange(b, 1, Len(b))

(***************************************************************************)
(* JSON.parse: a recursive descent over the characters.  A result is       *)
(* [ok, val, pos]: whether a value was read, the value, and the index of   *)
(* the first character after it.  Numbers are integers without fraction    *)
(* or exponent; of the string escapes, \" and \\ are read.                 *)
(***************************************************************************)
ParseFail == [ok |-> FALSE, val |-> JNull, pos |-> 0]

ParseOk(x, p) == [ok |-> TRUE, val |-> x, pos |-> p]

\* The first index from i on that holds no whitespace (Len(s) + 1 if none).
SkipWs(s, i) ==
  CHOOSE j \in i..(Len(s) + 1) :
    /\ j = Len(s) + 1 \/ s[j] \notin Whitespace
    /\ \A n \in i..(j - 1) : s[n] \in Whitespace

Matches(s, i, lit) ==
  /\ i + Len(lit) - 1 <= Len(s)
  /\ \A n \in 1..Len(lit) : s[i + n - 1] = lit[n]

\* The first index from i on that holds no digit.
DigitsEnd(s, i) ==
  CHOOSE j \in i..(Len(s) + 1) :
    /\ j = Len(s) + 1 \/ ~IsDigit(s[j])
    /\ \A n \in i..(j - 1) : IsDigit(s[n])

RECURSIVE DigitsValue(_, _, _)
DigitsValue(s, lo, hi) ==
  IF lo > hi THEN 0 ELSE 10 * DigitsValue(s, lo, hi - 1) + DigitVal(s[hi])

\* int: "0", or a non-zero digit followed by digits; an optional minus.
ParseNumber(s, i) ==
  LET neg == s[i] = "-"
      j == IF neg THEN i + 1 ELSE i
      e == DigitsEnd(s, j)
  IN  IF j > Len(s) \/ ~IsDigit(s[j]) THEN ParseFail
      ELSE IF s[j] = "0" THEN ParseOk(JNum(0), j + 1)
      ELSE ParseOk(JNum(IF neg THEN 0 - DigitsValue(s, j, e - 1)
                               ELSE DigitsValue(s, j, e - 1)), e)

\* The number of backslashes that end just before index j, counted from i.
BackslashRun(s, i, j) ==
  CHOOSE k \in 0..(j - i) :
    /\ \A n \in (j - k)..(j - 1) : s[n] = "\\"
    /\ k = j - i \/ s[j - k - 1] # "\\"

\* Index n of a string that starts at i is escaped by a backslash before it.
Escaped(s, i, n) == BackslashRun(s, i, n) % 2 = 1

\* i is the index after the opening quote: the string ends at the first
\* quote that is not escaped; a backslash escapes a quote or a backslash.
ParseString(s, i) ==
  LET closes(j) == s[j] = "\"" /\ ~Escaped(s, i, j)
      ends == {j \in i..Len(s) : closes(j) /\ \A n \in i..(j - 1) : ~closes(n)}
      j == CHOOSE e \in ends : TRUE
      escapes(n) == s[n] = "\\" /\ ~Escaped(s, i, n)
      kept == SelectSeq([n \in 1..(j - i) |-> i + n - 1], LAMBDA n : ~escapes(n))
  IN  IF ends = {} THEN ParseFail
      ELSE IF \E n \in i..(j - 1) :
                \/ s[n] \in {"\n", "\t", "\r"}
                \/ escapes(n) /\ s[n + 1] \notin {"\"", "\\"}
        THEN ParseFail
      ELSE ParseOk(JStr([n \in 1..Len(kept) |-> s[kept[n]]]), j + 1)

RECURSIVE ParseValue(_, _)
RECURSIVE ParseElements(_, _, _)
RECURSIVE ParseMembers(_, _, _)

\* i is the index of the next element of an array whose elements so far
\* are acc.
ParseElements(s, i, acc) ==
  LET e == ParseValue(s, i)
      j == SkipWs(s, e.pos)
  IN  IF ~e.ok \/ j > Len(s) THEN ParseFail
      ELSE IF s[j] = "," THEN ParseElements(s, j + 1, Append(acc, e.val))
      ELSE IF s[j] = "]" THEN ParseOk(JArr(Append(acc, e.val)), j + 1)
      ELSE ParseFail

\* i is the index of the next member of an object whose properties so far
\* are acc.
ParseMembers(s, i, acc) ==
  LET q == SkipWs(s, i)
      key == IF q <= Len(s) /\ s[q] = "\"" THEN ParseString(s, q + 1) ELSE ParseFail
      c == SkipWs(s, key.pos)
      x == IF key.ok /\ c <= Len(s) /\ s[c] = ":" THEN ParseValue(s, c + 1) ELSE ParseFail
      j == SkipWs(s, x.pos)
  IN  IF ~x.ok \/ j > Len(s) THEN ParseFail
      ELSE IF s[j] = "," THEN ParseMembers(s, j + 1, PutProp(acc, key.val.v, x.val))
      ELSE IF s[j] = "}" THEN ParseOk(JObj(PutProp(acc, key.val.v, x.val)), j + 1)
      ELSE ParseFail

ParseValue(s, i) ==
  LET j == SkipWs(s, i)
  IN  IF j > Len(s) THEN ParseFail
      ELSE IF s[j] = "{"
        THEN LET q == SkipWs(s, j + 1)
             IN  IF q <= Len(s) /\ s[q] = "}" THEN ParseOk(JObj(<<>>), q + 1)
                 ELSE ParseMembers(s, j + 1, <<>>)
      ELSE IF s[j] = "["
        THEN LET q == SkipWs(s, j + 1)
             IN  IF q <= Len(s) /\ s[q] = "]" THEN ParseOk(JArr(<<>>), q + 1)
                 ELSE ParseElements(s, j + 1, <<>>)
      ELSE IF s[j] = "\"" THEN ParseString(s, j + 1)
      ELSE IF Matches(s, j, <<"n", "u", "l", "l">>) THEN ParseOk(JNull, j + 4)
      ELSE IF Matches(s, j, <<"t", "r", "u", "e">>) THEN ParseOk(JBool(TRUE), j + 4)
      ELSE IF Matches(s, j, <<"f", "a", "l", "s", "e">>) THEN ParseOk(JBool(FALSE), j + 5)
      ELSE IF s[j] = "-" \/ IsDigit(s[j]) THEN ParseNumber(s, j)
      ELSE ParseFail

\* JSON.parse(body): [ok, val]; ok is FALSE where JSON.parse throws a
\* SyntaxError (no value, or anything but whitespace after it).
JSONParse(s) ==
  LET r == ParseValue(s, 1)
  IN  IF r.ok /\ SkipWs(s, r.pos) > Len(s)
        THEN [ok |-> TRUE, val |-> r.val]
        ELSE [ok |-> FALSE, val |-> JNull]

(***************************************************************************)
(* JSON.stringify without indentation: the serialization written upstream. *)
(***************************************************************************)
RECURSIVE Digits(_)
Digits(n) ==
  IF n < 10 THEN <<DigitChars[n + 1]>>
  ELSE Digits(n \div 10) \o <<DigitChars[(n % 10) + 1]>>

RECURSIVE QuoteRange(_, _, _)
QuoteRange(s, lo, hi) ==
  IF lo > hi THEN <<>>
  ELSE IF lo = hi THEN (IF s[lo] \in {"\"", "\\"} THEN <<"\\", s[lo]>> ELSE <<s[lo]>>)
  ELSE QuoteRange(s, lo, (lo + hi) \div 2) \o QuoteRange(s, (lo + hi) \div 2 + 1, hi)

Quote(s) == <<"\"">> \o QuoteRange(s, 1, Len(s)) \o <<"\"">>

RECURSIVE JSONStringify(_)
RECURSIVE StringifyElements(_, _)
RECURSIVE StringifyMembers(_, _)

StringifyElements(xs, i) ==
  IF i > Len(xs) THEN <<>>
  ELSE (IF i > 1 THEN <<",">> ELSE <<>>) \o JSONStringify(xs[i]) \o StringifyElements(xs, i + 1)

StringifyMembers(ps, i) ==
  IF i > Len(ps) THEN <<>>
  ELSE (IF i > 1 THEN <<",">> ELSE <<>>)
         \o Quote(ps[i].k) \o <<":">> \o JSONStringify(ps[i].v)
         \o StringifyMembers(ps, i + 1)

JSONStringify(x) ==
  CASE x.t = "null" -> <<"n", "u", "l", "l">>
    [] x.t = "bool" -> IF x.v THEN <<"t", "r", "u", "e">> ELSE <<"f", "a", "l", "s", "e">>
    [] x.t = "num" -> IF x.v < 0 THEN <<"-">> \o Digits(0 - x.v) ELSE Digits(x.v)
    [] x.t = "str" -> Quote(x.v)
    [] x.t = "arr" -> <<"[">> \o StringifyElements(x.v, 1) \o <<"]">>
    [] x.t = "obj" -> <<"{">> \o StringifyMembers(x.v, 1) \o <<"}">>

(***************************************************************************)
(* The field stripping (src/main.js:67-89).  A result is                   *)
(* [threw, data, changes]: threw is TRUE where the code raises a TypeError *)
(* (a property read on null, or forEach on a value that has none), which   *)
(* the enclosing try block catches.                                        *)
(***************************************************************************)
Thrown == [threw |-> TRUE, xs |-> <<>>, changes |-> <<>>]

\* A faulty variant of the block loop, which C7 must tell from the
\* program's: it stops at the first block it strips.
RECURSIVE StripBlocksFirstOnly(_, _, _, _)
StripBlocksFirstOnly(blocks, n, prefix, acc) ==
  IF n > Len(blocks) THEN acc
  ELSE IF blocks[n].t = "null" THEN Thrown
  ELSE IF Truthy(GetProp(blocks[n], K_cache_control))
    THEN [threw |-> FALSE,
          xs |-> Append(acc.xs, DeleteProp(blocks[n], K_cache_control))
                   \o SubSeq(blocks, n + 1, Len(blocks)),
          changes |-> Append(acc.changes,
                             prefix \o ToString(n - 1) \o "].cache_control")]
  ELSE StripBlocksFirstOnly(blocks, n + 1, prefix, [acc EXCEPT !.xs = Append(@, blocks[n])])

\* blocks.forEach((block, idx) => { if (block.cache_control) { changes.push(..);
\* delete block.cache_control } }) from block n on; prefix is the path up to
\* the index, acc the elements passed and the change log so far.
RECURSIVE StripBlocks(_, _, _, _)
StripBlocks(blocks, n, prefix, acc) ==
  IF n > Len(blocks) THEN acc
  ELSE IF blocks[n].t = "null" THEN Thrown
  ELSE IF Truthy(GetProp(blocks[n], K_cache_control))
    THEN StripBlocks(blocks, n + 1, prefix,
           [threw |-> FALSE,
            xs |-> Append(acc.xs, DeleteProp(blocks[n], K_cache_control)),
            changes |-> Append(acc.changes,
                               prefix \o ToString(n - 1) \o "].cache_control")])
  ELSE StripBlocks(blocks, n + 1, prefix, [acc EXCEPT !.xs = Append(@, blocks[n])])

\* data.messages.forEach((msg, msgIdx) => { if (Array.isArray(msg.content)) ... })
RECURSIVE StripMessages(_, _, _)
StripMessages(msgs, n, acc) ==
  IF n > Len(msgs) THEN acc
  ELSE IF msgs[n].t = "null" THEN Thrown
  ELSE IF IsArray(GetProp(msgs[n], K_content))
    THEN LET r == StripBlocks(GetProp(msgs[n], K_content).v, 1,
                              "messages[" \o ToString(n - 1) \o "].content[",
                              [threw |-> FALSE, xs |-> <<>>, changes |-> acc.changes])
         IN  IF r.threw THEN Thrown
             ELSE StripMessages(msgs, n + 1,
                    [threw |-> FALSE,
                     xs |-> Append(acc.xs, JObj(PutProp(msgs[n].v, K_content, JArr(r.xs)))),
                     changes |-> r.changes])
  ELSE StripMessages(msgs, n + 1, [acc EXCEPT !.xs = Append(@, msgs[n])])

\* src/main.js:68-79
StripFromMessages(data) ==
  IF data.t = "null" THEN [threw |-> TRUE, data |-> data, changes |-> <<>>]
  ELSE IF ~Truthy(GetProp(data, K_messages))
    THEN [threw |-> FALSE, data |-> data, changes |-> <<>>]
  ELSE IF ~IsArray(GetProp(data, K_messages))
    THEN [threw |-> TRUE, data |-> data, changes |-> <<>>]
  ELSE LET r == StripMessages(GetProp(data, K_messages).v, 1,
                              [threw |-> FALSE, xs |-> <<>>, changes |-> <<>>])
       IN  IF r.threw THEN [threw |-> TRUE, data |-> data, changes |-> <<>>]
           ELSE [threw |-> FALSE,
                 data |-> JObj(PutProp(data.v, K_messages, JArr(r.xs))),
                 changes |-> r.changes]

\* A faulty variant of the system pass, which C8 must tell from the
\* program's: it starts a change log of its own.
StripFromSystemFreshLog(m) ==
  IF m.threw \/ ~IsArray(GetProp(m.data, K_system)) THEN m
  ELSE LET r == StripBlocks(GetProp(m.data, K_system).v, 1, "system[",
                            [threw |-> FALSE, xs |-> <<>>, changes |-> <<>>])
       IN  IF r.threw THEN [m EXCEPT !.threw = TRUE]
           ELSE [threw |-> FALSE,
                 data |-> JObj(PutProp(m.data.v, K_system, JArr(r.xs))),
                 changes |-> r.changes]

\* src/main.js:82-89, continuing from the result m of the messages pass.
StripFromSystem(m) ==
  IF m.threw \/ ~IsArray(GetProp(m.data, K_system)) THEN m
  ELSE LET r == StripBlocks(GetProp(m.data, K_system).v, 1, "system[",
                            [threw |-> FALSE, xs |-> <<>>, changes |-> m.changes])
       IN  IF r.threw THEN [m EXCEPT !.threw = TRUE]
           ELSE [threw |-> FALSE,
                 data |-> JObj(PutProp(m.data.v, K_system, JArr(r.xs))),
                 changes |-> r.changes]

\* A faulty variant of the stripping, which C4 must tell from the
\* program's: it deletes a top-level cache_control as well.
StripCacheControlAndTop(data) ==
  LET r == StripFromSystem(StripFromMessages(data))
  IN  IF r.threw \/ ~IsObject(r.data) THEN r
      ELSE [r EXCEPT !.data = DeleteProp(@, K_cache_control)]

\* src/main.js:67-89
StripCacheControl(data) == StripFromSystem(StripFromMessages(data))

(***************************************************************************)
(* Response bodies and their content codings.  A coded body is the text    *)
(* between the coding's header and trailer; decoding fails unless both are *)
(* in place (a truncated or foreign stream).                               *)
(***************************************************************************)
Framed(hdr, text, trl) == <<hdr>> \o text \o <<trl>>

Unframe(buf, hdr, trl) ==
  IF Len(buf) >= 2 /\ buf[1] = hdr /\ buf[Len(buf)] = trl
    THEN [err |-> FALSE, out |-> SubSeq(buf, 2, Len(buf) - 1)]
    ELSE [err |-> TRUE, out |-> <<>>]

\* zlib.gunzip, zlib.inflate, zlib.brotliDecompress (src/main.js:136-141)
Gunzip(buf) == Unframe(buf, "gzip:1f8b", "gzip:crc32")

Inflate(buf) == Unframe(buf, "zlib:78", "zlib:adler32")

BrotliDecompress(buf) == Unframe(buf, "br:window", "br:last")

\* Buffer.concat(chunks)
RECURSIVE BufferConcatFrom(_, _)
BufferConcatFrom(chunks, i) ==
  IF i > Len(chunks) THEN <<>> ELSE chunks[i] \o BufferConcatFrom(chunks, i + 1)

BufferConcat(chunks) == BufferConcatFrom(chunks, 1)

(***************************************************************************)
(* Header maps: functions from lower-case header names to values.          *)
(***************************************************************************)
NoHeaders == [h \in {} |-> ""]

HeaderOr(headers, name, default) ==
  IF name \in DOMAIN headers THEN headers[name] ELSE default

(***************************************************************************)
(* Process configuration (src/main.js:45-46).                              *)
(***************************************************************************)
DefaultHostname == "YOUNEEDTOPROVIDETHIS.cloud.databricks.com"

\* process.env.VERBOSE === 'true'
ConfigVerbose(env) == env = "true"

\* process.env.HOSTNAME || default; an unset variable reads as "".
ConfigHostname(env) == IF env = "" THEN DefaultHostname ELSE env

HttpsPort == 443

(***************************************************************************)
(* One request: the locals of the createServer callback and of the         *)
(* callbacks nested in it, the inbound message req (method, url, headers,  *)
(* raw: the body bytes the client sends, off: how many have been           *)
(* delivered), the caller-facing response res (resHeads: the status lines  *)
(* and headers written, resBody: the chunks written, resEnded), the        *)
(* outbound requests created (outbound), the upstream exchange (up,        *)
(* upstream: the response being received, delivered: its chunks emitted),  *)
(* what the request printed (log), and whether one of its callbacks let an *)
(* exception escape (uncaught), which ends the process.                    *)
(***************************************************************************)
NoResponse == [statusCode |-> 0, headers |-> NoHeaders, chunks |-> <<>>]

Idle ==
  [st |-> "idle", method |-> "", url |-> "", headers |-> NoHeaders,
   raw |-> <<>>, off |-> 0, body |-> <<>>,
   data |-> JNull, changes |-> <<>>, outbound |-> <<>>,
   up |-> "none", upstream |-> NoResponse, delivered |-> 0, chunks |-> <<>>,
   decompress |-> "none", error |-> <<>>,
   resHeads |-> <<>>, resBody |-> <<>>, resEnded |-> FALSE,
   log |-> <<>>, uncaught |-> FALSE]

\* console.log / console.error of one line
Log(q, line, arg) == [q EXCEPT !.log = Append(@, [line |-> line, arg |-> arg])]

LogIf(cond, q, line, arg) == IF cond THEN Log(q, line, arg) ELSE q

\* res.writeHead(statusCode, headers): throws ERR_HTTP_HEADERS_SENT once a
\* head has been written.
ResWriteHead(q, statusCode, headers) ==
  IF q.resHeads # <<>> THEN [q EXCEPT !.uncaught = TRUE]
  ELSE [q EXCEPT !.resHeads = Append(@, [statusCode |-> statusCode, headers |-> headers])]

\* res.write(chunk), as the pipe calls it
ResWrite(q, chunk) == [q EXCEPT !.resBody = Append(@, chunk)]

\* res.end(text)
ResEndWith(q, text) ==
  [q EXCEPT !.resBody = Append(@, Utf8Encode(text)), !.resEnded = TRUE]

\* res.end()
ResEnd(q) == [q EXCEPT !.resEnded = TRUE]

ErrorPayload(text) == JSONStringify(JObj(<<Prop(K_error, JStr(text))>>))

\* http.createServer((req, res) => { let body = ''; ... }) (src/main.js:48-55)
OnConnection(q, inbound, raw) ==
  [q EXCEPT !.st = "receiving",
            !.method = inbound.method,
            !.url = inbound.url,
            !.headers = IF inbound.chunked
                          THEN inbound.headers @@ ("transfer-encoding" :> "chunked")
                          ELSE inbound.headers @@ ("content-length" :> ToString(Len(raw))),
            !.raw = raw]

\* req.on('data', chunk => { body += chunk.toString() }) for a chunk of the
\* next k bytes (src/main.js:51-53)
ReqOnDataHandler(q, k) ==
  [q EXCEPT !.body = @ \o BufferToString(SubSeq(q.raw, q.off + 1, q.off + k)),
            !.off = @ + k]

\* catch (err) { ... } (src/main.js:173-181)
CatchHandler(q, verbose) ==
  LET q1 == Log(q, "PARSE ERROR:", <<>>)
      q2 == LogIf(verbose, q1, "Raw body:", q.body)
      q3 == ResWriteHead([q2 EXCEPT !.st = "rejected"], 400, NoHeaders)
  IN  IF q3.uncaught THEN q3 ELSE ResEndWith(q3, ErrorPayload(InvalidJSONText))

\* A faulty variant of the options, which C9 must tell from the program's:
\* content-length is the length of the string, not of its bytes.
MakeOptionsStringLength(q, modifiedBody, hostname) ==
  [hostname |-> hostname,
   port |-> HttpsPort,
   path |-> q.url,
   method |-> q.method,
   headers |-> [h \in DOMAIN q.headers \cup {"content-length", "host"} |->
                  IF h = "content-length" THEN ToString(Len(modifiedBody))
                  ELSE IF h = "host" THEN hostname
                  ELSE q.headers[h]]]

\* const options = { ... } (src/main.js:102-112)
MakeOptions(q, modifiedBody, hostname) ==
  [hostname |-> hostname,
   port |-> HttpsPort,
   path |-> q.url,
   method |-> q.method,
   headers |-> [h \in DOMAIN q.headers \cup {"content-length", "host"} |->
                  IF h = "content-length" THEN ToString(ByteLength(modifiedBody))
                  ELSE IF h = "host" THEN hostname
                  ELSE q.headers[h]]]

\* https.request(options, cb); proxyReq.on('error', ..);
\* proxyReq.write(modifiedBody); proxyReq.end() (src/main.js:120, 161, 170-171)
Dispatch(q, options, modifiedBody) ==
  [q EXCEPT !.outbound = Append(@, [options |-> options,
                                    written |-> Utf8Encode(modifiedBody),
                                    ended |-> TRUE]),
            !.st = "forwarded",
            !.up = "pending"]

\* A faulty variant of the forwarding, which C14 must tell from the
\* program's: the body is serialized from the document as parsed, before
\* the stripping.
ForwardHandlerBeforeStrip(q, s, verbose, hostname) ==
  LET modifiedBody == JSONStringify(JSONParse(q.body).val)
      options == MakeOptions(q, modifiedBody, hostname)
      q1 == LogIf(s.changes # <<>>, q, "STRIPPED:", s.changes)
      q3 == Log(q1, "REQUEST:", <<q.method, options.hostname, options.path>>)
  IN  Dispatch([q3 EXCEPT !.data = s.data, !.changes = s.changes], options, modifiedBody)

\* The part of the try block after a successful parse and strip
\* (src/main.js:91-171).
ForwardHandler(q, s, verbose, hostname) ==
  LET modifiedBody == JSONStringify(s.data)
      options == MakeOptions(q, modifiedBody, hostname)
      q1 == LogIf(s.changes # <<>>, q, "STRIPPED:", s.changes)
      q2 == LogIf(verbose /\ s.changes # <<>>, q1, "Modified Body:", modifiedBody)
      q3 == Log(q2, "REQUEST:", <<q.method, options.hostname, options.path>>)
      q4 == LogIf(verbose, q3, "Forward Headers:", <<>>)
  IN  Dispatch([q4 EXCEPT !.data = s.data, !.changes = s.changes], options, modifiedBody)

\* A faulty variant of the 'end' callback, which C2 must tell from the
\* program's: a body that does not parse is forwarded as the document null.
ReqOnEndForwardsUnparsed(q, verbose, hostname) ==
  LET parsed == JSONParse(q.body)
      s == StripCacheControl(parsed.val)
  IN  IF parsed.ok /\ s.threw THEN CatchHandler(q, verbose)
      ELSE ForwardHandler(q, IF parsed.ok THEN s
                             ELSE [threw |-> FALSE, data |-> JNull, changes |-> <<>>],
                          verbose, hostname)

\* req.on('end', () => { try { ... } catch (err) { ... } }) (src/main.js:55-182)
ReqOnEndHandler(q, verbose, hostname) ==
  LET parsed == JSONParse(q.body)
      q1 == LogIf(verbose, q, "=== INCOMING REQUEST ===", q.body)
      s == StripCacheControl(parsed.val)
  IN  IF ~parsed.ok THEN CatchHandler(q, verbose)
      ELSE IF s.threw THEN CatchHandler(q1, verbose)
      ELSE ForwardHandler(q1, s, verbose, hostname)

\* The https.request callback: proxyRes => { const chunks = []; ...;
\* res.writeHead(proxyRes.statusCode, proxyRes.headers); proxyRes.pipe(res) }
\* (src/main.js:120-159)
OnResponseHandler(q, proxyRes) ==
  ResWriteHead([q EXCEPT !.up = "streaming", !.upstream = proxyRes, !.chunks = <<>>],
               proxyRes.statusCode, proxyRes.headers)

\* A faulty variant of the 'data' step, which C15 must tell from the
\* program's: the chunk reaches the caller twice.
ProxyResOnDataHandlerTwice(q) ==
  LET chunk == q.upstream.chunks[q.delivered + 1]
  IN  ResWrite(ResWrite([q EXCEPT !.chunks = Append(@, chunk), !.delivered = @ + 1], chunk),
               chunk)

\* proxyRes 'data': chunks.push(chunk), and the pipe writes the chunk to res
\* (src/main.js:123-125, 158)
ProxyResOnDataHandler(q) ==
  LET chunk == q.upstream.chunks[q.delivered + 1]
  IN  ResWrite([q EXCEPT !.chunks = Append(@, chunk), !.delivered = @ + 1], chunk)

\* const decompress = (buf, callback) => ... : "sync" where the callback is
\* called at once, else the zlib call that will call it (src/main.js:135-145)
DecompressKind(encoding) ==
  IF encoding \in {"gzip", "deflate", "br"} THEN encoding ELSE "sync"

ZlibResult(kind, buf) ==
  CASE kind = "gzip" -> Gunzip(buf)
    [] kind = "deflate" -> Inflate(buf)
    [] kind = "br" -> BrotliDecompress(buf)
    [] OTHER -> [err |-> FALSE, out |-> buf]

\* A faulty variant of the decompression callback, which C10 must tell from
\* the program's: a decompression error is answered to the caller.
DecompressCallbackSurfacesError(q, r) ==
  LET q1 == Log(q, "Response Headers:", <<>>)
  IN  IF r.err
        THEN [ResWriteHead(q1, 500, NoHeaders) EXCEPT !.decompress = "failed"]
        ELSE [Log(q1, "Response Body:", BufferToString(r.out)) EXCEPT !.decompress = "done"]

\* (err, decompressed) => { ... } (src/main.js:147-151)
DecompressCallback(q, r) ==
  LET buffer == BufferConcat(q.chunks)
      responseBody == IF r.err THEN BufferToString(buffer) ELSE BufferToString(r.out)
      q1 == Log(q, "Response Headers:", <<>>)
      q2 == Log(q1, "Response Body:", responseBody)
  IN  [q2 EXCEPT !.decompress = IF r.err THEN "failed" ELSE "done"]

\* proxyRes 'end': the logging listener, then the pipe ends res
\* (src/main.js:127-155, 158)
ProxyResOnEndHandler(q, verbose) ==
  LET kind == DecompressKind(HeaderOr(q.upstream.headers, "content-encoding", ""))
      q1 == Log(q, "RESPONSE:", <<ToString(q.upstream.statusCode)>>)
      q2 == IF ~verbose THEN q1
            ELSE IF kind = "sync"
              THEN DecompressCallback(q1, ZlibResult(kind, BufferConcat(q.chunks)))
            ELSE [q1 EXCEPT !.decompress = kind]
      q3 == Log(q2, "---", <<>>)
  IN  ResEnd([q3 EXCEPT !.up = "ended"])

\* The zlib callback of a request whose decompression is under way.
ZlibCallbackHandler(q) ==
  DecompressCallback(q, ZlibResult(q.decompress, BufferConcat(q.chunks)))

\* A faulty variant of the error callback, which C1 must tell from the
\* program's: it answers 500 whether or not a head was written before.
ProxyReqOnErrorAnswersAgain(q, message, verbose) ==
  ResEndWith([q EXCEPT !.up = "failed",
                       !.error = message,
                       !.resHeads = Append(@, [statusCode |-> 500, headers |-> NoHeaders])],
             ErrorPayload(message))

\* proxyReq.on('error', err => { ... }) (src/main.js:161-168)
ProxyReqOnErrorHandler(q, message, verbose) ==
  LET q1 == Log([q EXCEPT !.up = "failed", !.error = message], "ERROR:", message)
      q2 == LogIf(verbose, q1, "ERROR (detail):", message)
      q3 == ResWriteHead(q2, 500, NoHeaders)
  IN  IF q3.uncaught THEN q3 ELSE ResEndWith(q3, ErrorPayload(message))

(***************************************************************************)
(* Inputs.  Request bodies are byte sequences; those of documents are the  *)
(* UTF-8 encoding of the document's serialization.                         *)
(***************************************************************************)
K_type ==
  <<"t", "y", "p", "e">>

K_text ==
  <<"t", "e", "x", "t">>

K_role ==
  <<"r", "o", "l", "e">>

K_tools ==
  <<"t", "o", "o", "l", "s">>

K_source ==
  <<"s", "o", "u", "r", "c", "e">>

T_text ==
  <<"t", "e", "x", "t">>

T_ephemeral ==
  <<"e", "p", "h", "e", "m", "e", "r", "a", "l">>

T_user ==
  <<"u", "s", "e", "r">>

T_hi ==
  <<"h", "i">>

T_accent ==
  <<"h", EAcute>>

Ephemeral == JObj(<<Prop(K_type, JStr(T_ephemeral))>>)

PlainBlock == JObj(<<Prop(K_text, JStr(T_hi))>>)

\* block with the property cache_control: x added last
WithCacheControl(block, x) == JObj(Append(block.v, Prop(K_cache_control, x)))

CachedBlock == WithCacheControl(PlainBlock, Ephemeral)

TextBlock(text) == JObj(<<Prop(K_type, JStr(T_text)), Prop(K_text, JStr(text))>>)

UserMessage(content) == JObj(<<Prop(K_role, JStr(T_user)), Prop(K_content, content)>>)

RawOf(doc) == Utf8Encode(JSONStringify(doc))

\* {"system":[{"type":"text","text":"hi","cache_control":{"type":"ephemeral"}}]}
DocSystemCached ==
  JObj(<<Prop(K_system, JArr(<<WithCacheControl(TextBlock(T_hi), Ephemeral)>>))>>)

\* {"messages":[{"role":"user","content":[{"type":"text","text":"hi"}]}]}
DocPlain == JObj(<<Prop(K_messages, JArr(<<UserMessage(JArr(<<TextBlock(T_hi)>>))>>))>>)

\* {"system":[{"text":"h<e acute>","cache_control":{"type":"ephemeral"}}]}
DocAccent ==
  JObj(<<Prop(K_system,
              JArr(<<WithCacheControl(JObj(<<Prop(K_text, JStr(T_accent))>>), Ephemeral)>>))>>)

\* cache_control with each falsy JSON value, in both locations
DocFalsy ==
  JObj(<<Prop(K_system, JArr(<<WithCacheControl(PlainBlock, JNull),
                               WithCacheControl(PlainBlock, JBool(FALSE)),
                               WithCacheControl(PlainBlock, JNum(0)),
                               WithCacheControl(PlainBlock, JStr(<<>>))>>)),
         Prop(K_messages, JArr(<<UserMessage(JArr(<<WithCacheControl(PlainBlock, JNull)>>))>>))>>)

\* cache_control with truthy values of every type
DocTruthy ==
  JObj(<<Prop(K_system, JArr(<<WithCacheControl(PlainBlock, JBool(TRUE)),
                               WithCacheControl(PlainBlock, JNum(1)),
                               WithCacheControl(PlainBlock, JStr(T_hi)),
                               WithCacheControl(PlainBlock, JArr(<<>>)),
                               WithCacheControl(PlainBlock, JObj(<<>>))>>))>>)

\* cache_control outside the two locations: at top level, on a message, below
\* a content block, below a system block, in another top-level sequence; and
\* a cache_control first among the properties of a block that is stripped
DocDecoys ==
  JObj(<<Prop(K_cache_control, Ephemeral),
         Prop(K_messages,
              JArr(<<WithCacheControl(
                       UserMessage(JArr(<<JObj(<<Prop(K_cache_control, Ephemeral),
                                                 Prop(K_source, CachedBlock)>>)>>)),
                       Ephemeral),
                     WithCacheControl(UserMessage(JStr(T_hi)), Ephemeral)>>)),
         Prop(K_tools, JArr(<<CachedBlock>>)),
         Prop(K_system, JArr(<<JObj(<<Prop(K_source, CachedBlock)>>), CachedBlock>>))>>)

\* system that is a string, elements that are not objects
DocLoose ==
  JObj(<<Prop(K_system, JStr(T_hi)),
         Prop(K_messages, JArr(<<JNum(5), JStr(T_hi), JArr(<<CachedBlock>>),
                                 UserMessage(JArr(<<JNum(1), JStr(T_hi), JBool(TRUE),
                                                    JArr(<<CachedBlock>>), CachedBlock>>))>>))>>)

\* Documents on which the stripping raises a TypeError.
ThrowingDocs ==
  {JNull,
   JObj(<<Prop(K_messages, JNum(5))>>),
   JObj(<<Prop(K_messages, JStr(T_hi))>>),
   JObj(<<Prop(K_messages, JObj(<<>>))>>),
   JObj(<<Prop(K_messages, JArr(<<UserMessage(JArr(<<CachedBlock>>)), JNull>>))>>),
   JObj(<<Prop(K_messages, JArr(<<UserMessage(JArr(<<CachedBlock, JNull>>))>>))>>),
   JObj(<<Prop(K_system, JArr(<<CachedBlock, JNull>>))>>)}

\* Documents that are not objects, or whose messages is falsy.
OddDocs ==
  {JNum(5), JStr(T_hi), JBool(TRUE), JArr(<<CachedBlock>>), JObj(<<>>),
   JObj(<<Prop(K_messages, JNull), Prop(K_system, JNull)>>),
   JObj(<<Prop(K_messages, JNum(0)), Prop(K_system, JArr(<<CachedBlock>>))>>),
   JObj(<<Prop(K_messages, JArr(<<>>)), Prop(K_system, JArr(<<>>))>>)}

\* {"messages":
RawTruncated ==
  <<"{", "\"", "m", "e", "s", "s", "a", "g", "e", "s", "\"", ":">>

RawNull ==
  <<"n", "u", "l", "l">>

\* the same kind of document with whitespace between the tokens
RawSpaced ==
  <<" ", "{", "\n", " ", "\"", "s", "y", "s", "t", "e", "m", "\"", " ", ":", " ", "[", " ",
    "{", " ", "\"", "c", "a", "c", "h", "e", "_", "c", "o", "n", "t", "r", "o", "l", "\"",
    " ", ":", " ", "1", " ", ",", " ", "\"", "t", "e", "x", "t", "\"", " ", ":", " ", "\"",
    "h", "i", "\"", " ", "}", " ", "]", " ", ",", "\n", " ", "\"", "n", "\"", " ", ":",
    " ", "-", "1", "2", " ", "}", "\n">>

\* a repeated key: the later value, in the place of the first
RawRepeatedKey ==
  <<"{", "\"", "s", "y", "s", "t", "e", "m", "\"", ":", "[", "{", "\"", "c", "a", "c", "h",
    "e", "_", "c", "o", "n", "t", "r", "o", "l", "\"", ":", "1", ",", "\"", "t", "e", "x",
    "t", "\"", ":", "\"", "h", "i", "\"", ",", "\"", "c", "a", "c", "h", "e", "_", "c",
    "o", "n", "t", "r", "o", "l", "\"", ":", "n", "u", "l", "l", "}", "]", "}">>

\* Texts that are not JSON.
MalformedTexts ==
  {<<"{", "\"", "m", "e", "s", "s", "a", "g", "e", "s", "\"", ":", "[", "}">>,
   <<"[", "1", ",", "]">>,
   <<"0", "1">>,
   <<"{", "\"", "a", "\"", " ", "1", "}">>,
   <<"n", "u", "l">>,
   <<"\"", "a", "b", "c">>,
   <<"{", "}", " ", "x">>,
   <<"{", "\"", "a", "\"", ":", "1", ",", "}">>,
   <<"-">>,
   <<"[", "1", " ", "2", "]">>,
   <<"{", "'", "a", "'", ":", "1", "}">>,
   <<"{", "\"", "a", "\"", ":", "\"", "b", "\n", "c", "\"", "}">>,
   <<"u", "n", "d", "e", "f", "i", "n", "e", "d">>,
   <<"{", "\"", "m", "e", "s", "s", "a", "g", "e", "s", "\"", ":", "[", "{", "\"", "c", "o", "n", "t", "e", "n", "t", "\"", ":", "[", "{", "\"", "c", "a", "c", "h", "e", "_", "c", "o", "n", "t", "r", "o", "l", "\"", ":", "{", "}", "}", "]", "}", "]">>}

\* The longest content or system sequence of a generated document, counted
\* over the whole document.
MaxBlocks == 3

BlockSeqs == UNION {[1..m -> {PlainBlock, CachedBlock}] : m \in 0..MaxBlocks}

\* Every document {"messages":[{..,"content":a},{..,"content":b}],"system":c}
\* of plain and cached blocks, at most MaxBlocks in all.
GeneratedDocs ==
  {JObj(<<Prop(K_messages, JArr(<<UserMessage(JArr(t[1])), UserMessage(JArr(t[2]))>>)),
          Prop(K_system, JArr(t[3]))>>) :
     t \in {u \in BlockSeqs \X BlockSeqs \X BlockSeqs :
              Len(u[1]) + Len(u[2]) + Len(u[3]) <= MaxBlocks}}

SpecialDocs ==
  {DocSystemCached, DocPlain, DocAccent, DocFalsy, DocTruthy, DocDecoys, DocLoose}

Prefixes(raw) == {SubSeq(raw, 1, n) : n \in 0..(Len(raw) - 1)}

\* The bodies of the single-request specification.
RawInputs ==
  {RawOf(d) : d \in GeneratedDocs \cup SpecialDocs \cup ThrowingDocs \cup OddDocs}
    \cup {Utf8Encode(t) : t \in MalformedTexts}
    \cup Prefixes(RawOf(DocSystemCached))
    \cup {RawSpaced, RawRepeatedKey, RawTruncated}

\* The bodies of the concurrent specification.
Bodies == {RawOf(DocAccent), RawOf(DocPlain), RawTruncated, <<>>, RawNull}

\* Where the client's body may be cut into chunks: after the first byte, in
\* the middle, and inside every multi-byte character.
ChunkCuts(raw) ==
  {k \in 1..(Len(raw) - 1) : k = 1 \/ k = Len(raw) \div 2 \/ raw[k] = "0xC3"}

InboundPost ==
  [method |-> "POST", url |-> "/serving-endpoints/anthropic/v1/messages",
   chunked |-> FALSE,
   headers |-> ("host" :> "localhost:3000") @@ ("authorization" :> "Bearer dapi-token")
                 @@ ("content-type" :> "application/json")]

InboundPut ==
  [method |-> "PUT", url |-> "/v1/complete?beta=true",
   chunked |-> TRUE,
   headers |-> ("authorization" :> "Bearer other") @@ ("x-api-key" :> "k")]

\* The request line and headers each of the two requests arrives with.
InboundOf(r) == IF r = "A" THEN InboundPost ELSE InboundPut

\* What the upstream may answer: a gzip body in two chunks, a deflate body
\* cut short, a brotli body, a body in a coding the program does not know,
\* and an error status with a plain body.
UpstreamResponses ==
  {[statusCode |-> 200,
    headers |-> ("content-encoding" :> "gzip") @@ ("content-type" :> "application/json"),
    chunks |-> <<<<"gzip:1f8b", "o">>, <<"k", "gzip:crc32">>>>],
   [statusCode |-> 200,
    headers |-> ("content-encoding" :> "deflate"),
    chunks |-> <<<<"zlib:78", "o">>>>],
   [statusCode |-> 200,
    headers |-> ("content-encoding" :> "br"),
    chunks |-> <<Framed("br:window", <<"o", "k">>, "br:last")>>],
   [statusCode |-> 200,
    headers |-> ("content-encoding" :> "zstd"),
    chunks |-> <<<<"0xC3", "k">>>>],
   [statusCode |-> 400,
    headers |-> ("content-type" :> "application/json"),
    chunks |-> <<<<"n", "o">>>>]}

\* err.message of the transport errors the outbound request may raise
T_ENOTFOUND == <<"E", "N", "O", "T", "F", "O", "U", "N", "D">>

T_ECONNRESET == <<"E", "C", "O", "N", "N", "R", "E", "S", "E", "T">>

\* A name that does not resolve fails the request before any response; a
\* connection may be reset at any time.
TransportErrors(up) == IF up = "pending" THEN {T_ENOTFOUND, T_ECONNRESET} ELSE {T_ECONNRESET}

(***************************************************************************)
(* The process: its configuration and its requests.                        *)
(***************************************************************************)
VARIABLES VERBOSE, HOSTNAME, rq

vars == <<VERBOSE, HOSTNAME, rq>>

Reqs == {"A", "B"}

\* An exception that escapes a callback ends the process.
Crashed == \E r \in Reqs : rq[r].uncaught

Config ==
  /\ \E env \in {"", "true", "1"} : VERBOSE = ConfigVerbose(env)
  /\ \E env \in {"", "adb-1.cloud.databricks.com"} : HOSTNAME = ConfigHostname(env)

\* After server.listen: no request yet.
Init ==
  /\ Config
  /\ rq = [r \in Reqs |-> Idle]

Update(r, q) ==
  /\ rq' = [rq EXCEPT ![r] = q]
  /\ UNCHANGED <<VERBOSE, HOSTNAME>>

\* A faulty variant of the arrival, which C12 must tell from the program's:
\* no request is accepted while an upstream call is pending.
ConnectionSerial(r) ==
  /\ ~Crashed
  /\ rq[r].st = "idle"
  /\ r = "B" => rq["A"].st # "idle"
  /\ \A s \in Reqs : rq[s].up # "pending"
  /\ \E raw \in Bodies : Update(r, OnConnection(rq[r], InboundOf(r), raw))

\* A request arrives; B names the later of the two.
Connection(r) ==
  /\ ~Crashed
  /\ rq[r].st = "idle"
  /\ r = "B" => rq["A"].st # "idle"
  /\ \E raw \in Bodies : Update(r, OnConnection(rq[r], InboundOf(r), raw))

ReqOnData(r) ==
  /\ ~Crashed
  /\ rq[r].st = "receiving"
  /\ \E k \in 1..(Len(rq[r].raw) - rq[r].off) :
       /\ rq[r].off + k = Len(rq[r].raw) \/ rq[r].off + k \in ChunkCuts(rq[r].raw)
       /\ Update(r, ReqOnDataHandler(rq[r], k))

ReqOnEnd(r) ==
  /\ ~Crashed
  /\ rq[r].st = "receiving"
  /\ rq[r].off = Len(rq[r].raw)
  /\ Update(r, ReqOnEndHandler(rq[r], VERBOSE, HOSTNAME))

ProxyReqOnResponse(r) ==
  /\ ~Crashed
  /\ rq[r].up = "pending"
  /\ \E proxyRes \in UpstreamResponses : Update(r, OnResponseHandler(rq[r], proxyRes))

ProxyResOnData(r) ==
  /\ ~Crashed
  /\ rq[r].up = "streaming"
  /\ rq[r].delivered < Len(rq[r].upstream.chunks)
  /\ Update(r, ProxyResOnDataHandler(rq[r]))

ProxyResOnEnd(r) ==
  /\ ~Crashed
  /\ rq[r].up = "streaming"
  /\ rq[r].delivered = Len(rq[r].upstream.chunks)
  /\ Update(r, ProxyResOnEndHandler(rq[r], VERBOSE))

ZlibCallback(r) ==
  /\ ~Crashed
  /\ rq[r].decompress \in {"gzip", "deflate", "br"}
  /\ Update(r, ZlibCallbackHandler(rq[r]))

\* The outbound request fails: before a response, or while one is received.
ProxyReqOnError(r) ==
  /\ ~Crashed
  /\ rq[r].up \in {"pending", "streaming"}
  /\ \E message \in TransportErrors(rq[r].up) :
       Update(r, ProxyReqOnErrorHandler(rq[r], message, VERBOSE))

Next ==
  \E r \in Reqs :
    \/ Connection(r)
    \/ ReqOnData(r)
    \/ ReqOnEnd(r)
    \/ ProxyReqOnResponse(r)
    \/ ProxyResOnData(r)
    \/ ProxyResOnEnd(r)
    \/ ZlibCallback(r)
    \/ ProxyReqOnError(r)

Spec == Init /\ [][Next]_vars

(***************************************************************************)
(* One request, from its arrival to the end of the 'end' callback, over    *)
(* the whole set of bodies.                                                *)
(***************************************************************************)
InitOne ==
  /\ Config
  /\ \E raw \in RawInputs :
       rq = [r \in Reqs |-> IF r = "A" THEN OnConnection(Idle, InboundPost, raw) ELSE Idle]

NextOne == ReqOnData("A") \/ ReqOnEnd("A")

SpecOne == InitOne /\ [][NextOne]_vars

(***************************************************************************)
(* One request run twice, A with VERBOSE on and B with VERBOSE off, on the *)
(* same inbound request and the same upstream events.  Only the zlib       *)
(* callback, which the quiet run never schedules, is a step of A alone.    *)
(***************************************************************************)
TwinBodies == Bodies \cup {RawOf(DocSystemCached), RawOf(DocDecoys)}

InitTwin ==
  /\ VERBOSE = ConfigVerbose("true")
  /\ \E env \in {"", "adb-1.cloud.databricks.com"} : HOSTNAME = ConfigHostname(env)
  /\ \E inbound \in {InboundPost, InboundPut}, raw \in TwinBodies :
       rq = [r \in Reqs |-> OnConnection(Idle, inbound, raw)]

\* The flag each of the two runs was started with.
VerboseOf(r) == IF r = "A" THEN VERBOSE ELSE ConfigVerbose("")

TwinUpdate(f) ==
  /\ rq' = f
  /\ UNCHANGED <<VERBOSE, HOSTNAME>>

TwinReqOnData ==
  /\ ~Crashed
  /\ \A r \in Reqs : rq[r].st = "receiving"
  /\ \E k \in 1..(Len(rq["A"].raw) - rq["A"].off) :
       /\ rq["A"].off + k = Len(rq["A"].raw) \/ rq["A"].off + k \in ChunkCuts(rq["A"].raw)
       /\ TwinUpdate([r \in Reqs |-> ReqOnDataHandler(rq[r], k)])

TwinReqOnEnd ==
  /\ ~Crashed
  /\ \A r \in Reqs : rq[r].st = "receiving" /\ rq[r].off = Len(rq[r].raw)
  /\ TwinUpdate([r \in Reqs |-> ReqOnEndHandler(rq[r], VerboseOf(r), HOSTNAME)])

TwinProxyReqOnResponse ==
  /\ ~Crashed
  /\ \A r \in Reqs : rq[r].up = "pending"
  /\ \E proxyRes \in UpstreamResponses :
       TwinUpdate([r \in Reqs |-> OnResponseHandler(rq[r], proxyRes)])

TwinProxyResOnData ==
  /\ ~Crashed
  /\ \A r \in Reqs : rq[r].up = "streaming" /\ rq[r].delivered < Len(rq[r].upstream.chunks)
  /\ TwinUpdate([r \in Reqs |-> ProxyResOnDataHandler(rq[r])])

TwinProxyResOnEnd ==
  /\ ~Crashed
  /\ \A r \in Reqs : rq[r].up = "streaming" /\ rq[r].delivered = Len(rq[r].upstream.chunks)
  /\ TwinUpdate([r \in Reqs |-> ProxyResOnEndHandler(rq[r], VerboseOf(r))])

TwinProxyReqOnError ==
  /\ ~Crashed
  /\ \A r \in Reqs : rq[r].up \in {"pending", "streaming"}
  /\ \E message \in TransportErrors(rq["A"].up) :
       TwinUpdate([r \in Reqs |-> ProxyReqOnErrorHandler(rq[r], message, VerboseOf(r))])

TwinZlibCallback ==
  /\ ~Crashed
  /\ \E r \in Reqs :
       /\ rq[r].decompress \in {"gzip", "deflate", "br"}
       /\ TwinUpdate([rq EXCEPT ![r] = ZlibCallbackHandler(rq[r])])

NextTwin ==
  \/ TwinReqOnData
  \/ TwinReqOnEnd
  \/ TwinProxyReqOnResponse
  \/ TwinProxyResOnData
  \/ TwinProxyResOnEnd
  \/ TwinProxyReqOnError
  \/ TwinZlibCallback

SpecTwin == InitTwin /\ [][NextTwin]_vars

(***************************************************************************)
(* Properties.                                                             *)
(***************************************************************************)
\* The caller-facing response relays the upstream head.
Relayed(q) ==
  /\ q.st = "forwarded"
  /\ q.upstream # NoResponse
  /\ q.resHeads = <<[statusCode |-> q.upstream.statusCode, headers |-> q.upstream.headers]>>
  /\ q.resBody = SubSeq(q.upstream.chunks, 1, q.delivered)

\* {"error":"Invalid JSON"}
InvalidJsonBody ==
  <<"{", "\"", "e", "r", "r", "o", "r", "\"", ":", "\"", "I", "n", "v", "a", "l", "i", "d", " ", "J", "S", "O", "N", "\"", "}">>

ErrorBody(message) == <<"{", "\"", "e", "r", "r", "o", "r", "\"", ":", "\"">> \o message \o <<"\"", "}">>

\* The caller-facing response is the synthesized 400.
Answered400(q) ==
  /\ q.st = "rejected"
  /\ q.resHeads = <<[statusCode |-> 400, headers |-> NoHeaders]>>
  /\ q.resBody = <<InvalidJsonBody>>
  /\ q.resEnded

\* The caller-facing response is the synthesized 500 carrying the message.
Answered500(q) ==
  /\ q.up = "failed"
  /\ q.upstream = NoResponse
  /\ q.resHeads = <<[statusCode |-> 500, headers |-> NoHeaders]>>
  /\ q.resBody = <<ErrorBody(q.error)>>
  /\ q.resEnded

\* The 'end' callback of the inbound request has run.
BodyReceived(q) == q.st \in {"rejected", "forwarded"}

\* C1: a request's caller-facing response is never begun twice: at most one
\* head is ever written, exactly one once the body was rejected or the first
\* upstream event (response or error) was handled, and what was written is
\* the relayed upstream response alone, the 400 alone or the 500 alone; an
\* upstream error after the relayed head writes nothing more.
C1_ResponseBegunOnce ==
  \A r \in Reqs :
    LET q == rq[r]
    IN  /\ Len(q.resHeads) <= 1
        /\ (q.st = "rejected" \/ q.up \in {"streaming", "ended", "failed"})
             => Len(q.resHeads) = 1
        /\ q.resHeads # <<>> => Relayed(q) \/ Answered400(q) \/ Answered500(q)
        /\ q.resHeads = <<>> => q.resBody = <<>> /\ ~q.resEnded

\* An upstream error was raised after the upstream head had been relayed.
C1_Witness ==
  \E r \in Reqs :
    /\ rq[r].up = "failed"
    /\ rq[r].upstream # NoResponse
    /\ rq[r].delivered >= 1
    /\ Len(rq[r].resHeads) = 1

\* C2: a body that is not a JSON document is answered 400 with the payload
\* {"error":"Invalid JSON"}, and no outbound request exists for it.
C2_InvalidJsonRejected ==
  \A r \in Reqs :
    (BodyReceived(rq[r]) /\ ~JSONParse(rq[r].body).ok)
      => /\ Answered400(rq[r])
         /\ rq[r].outbound = <<>>
         /\ rq[r].up = "none"

\* The truncated body {"messages": and the empty body were rejected.
C2_Witness ==
  /\ rq["A"].st = "rejected"
  /\ rq["A"].body \in {RawTruncated, <<>>}
  /\ rq["A"].resEnded

(***************************************************************************)
(* The document that was parsed and the document that was forwarded.       *)
(***************************************************************************)
Forwarded(q) == q.st = "forwarded" /\ q.outbound # <<>>

ParsedInput(q) == JSONParse(q.body).val

ForwardedDoc(q) == JSONParse(BufferToString(q.outbound[1].written)).val

MessagesOf(doc) ==
  IF IsArray(GetProp(doc, K_messages)) THEN GetProp(doc, K_messages).v ELSE <<>>

ContentOf(msg) ==
  IF IsArray(GetProp(msg, K_content)) THEN GetProp(msg, K_content).v ELSE <<>>

SystemOf(doc) ==
  IF IsArray(GetProp(doc, K_system)) THEN GetProp(doc, K_system).v ELSE <<>>

\* The two locations: <<0, i, j>> is messages[i-1].content[j-1], <<1, i, 0>>
\* is system[i-1].
Locations(doc) ==
  UNION {{<<0, i, j>> : j \in 1..Len(ContentOf(MessagesOf(doc)[i]))} :
           i \in 1..Len(MessagesOf(doc))}
    \cup {<<1, i, 0>> : i \in 1..Len(SystemOf(doc))}

BlockAt(doc, l) ==
  IF l[1] = 0 THEN ContentOf(MessagesOf(doc)[l[2]])[l[3]] ELSE SystemOf(doc)[l[2]]

\* Traversal order: messages before system, then by index.
Before(a, b) ==
  \/ a[1] < b[1]
  \/ a[1] = b[1] /\ a[2] < b[2]
  \/ a[1] = b[1] /\ a[2] = b[2] /\ a[3] < b[3]

PathOf(l) ==
  IF l[1] = 0
    THEN "messages[" \o ToString(l[2] - 1) \o "].content[" \o ToString(l[3] - 1)
           \o "].cache_control"
    ELSE "system[" \o ToString(l[2] - 1) \o "].cache_control"

\* The locations whose cache_control the input has and the output has not.
Removed(in, out) ==
  {l \in Locations(in) :
     /\ HasKey(BlockAt(in, l), K_cache_control)
     /\ ~(l \in Locations(out) /\ HasKey(BlockAt(out, l), K_cache_control))}

\* C3: in the body forwarded upstream, no element of a messages[i].content
\* sequence and no element of the system sequence has a cache_control
\* property, whatever its value was.
C3_NoCacheControlRemains ==
  \A r \in Reqs :
    Forwarded(rq[r])
      => \A l \in Locations(ForwardedDoc(rq[r])) :
           ~HasKey(BlockAt(ForwardedDoc(rq[r]), l), K_cache_control)

\* b is a, or a without its cache_control property.
BlockFrame(a, b) == b = a \/ (IsObject(a) /\ b = JObj(SelectSeq(a.v, LAMBDA p : p.k # K_cache_control)))

BlocksFrame(as, bs) ==
  /\ Len(bs) = Len(as)
  /\ \A n \in 1..Len(as) : BlockFrame(as[n], bs[n])

\* Objects a and b have the same properties in the same order, with equal
\* values except under key k, where the values are related by Inner.
ObjectFrame(a, b, k, Inner(_, _)) ==
  /\ IsObject(b)
  /\ Len(b.v) = Len(a.v)
  /\ \A n \in 1..Len(a.v) :
       /\ b.v[n].k = a.v[n].k
       /\ IF a.v[n].k = k THEN Inner(a.v[n].v, b.v[n].v) ELSE b.v[n].v = a.v[n].v

MessageFrame(m, n) ==
  IF IsObject(m) /\ IsArray(GetProp(m, K_content))
    THEN ObjectFrame(m, n, K_content, LAMBDA x, y : IsArray(y) /\ BlocksFrame(x.v, y.v))
    ELSE n = m

MessagesFrame(x, y) ==
  IF IsArray(x)
    THEN /\ IsArray(y)
         /\ Len(y.v) = Len(x.v)
         /\ \A n \in 1..Len(x.v) : MessageFrame(x.v[n], y.v[n])
    ELSE y = x

SystemFrame(x, y) == IF IsArray(x) THEN IsArray(y) /\ BlocksFrame(x.v, y.v) ELSE y = x

\* out is in, but for cache_control properties of the elements of
\* messages[i].content and system.
DocFrame(in, out) ==
  IF IsObject(in)
    THEN /\ IsObject(out)
         /\ Len(out.v) = Len(in.v)
         /\ \A n \in 1..Len(in.v) :
              /\ out.v[n].k = in.v[n].k
              /\ IF in.v[n].k = K_messages THEN MessagesFrame(in.v[n].v, out.v[n].v)
                 ELSE IF in.v[n].k = K_system THEN SystemFrame(in.v[n].v, out.v[n].v)
                 ELSE out.v[n].v = in.v[n].v
    ELSE out = in

C7_Idempotent ==
  \A r \in Reqs :
    Forwarded(rq[r])
      => StripCacheControl(rq[r].data)
           = [threw |-> FALSE, data |-> rq[r].data, changes |-> <<>>]

\* A document of which the first application stripped several fields.
C7_Witness ==
  /\ Forwarded(rq["A"])
  /\ Len(rq["A"].changes) >= 3
  /\ rq["A"].data # ParsedInput(rq["A"])

\* C8: the change log lists the path of every removed cache_control once,
\* and nothing else, in traversal order (messages by index, then system by
\* index); with an empty log the forwarded document is the parsed input.
C8_ChangeLogExact ==
  \A r \in Reqs :
    Forwarded(rq[r])
      => LET removed == Removed(ParsedInput(rq[r]), ForwardedDoc(rq[r]))
             rank(l) == 1 + Cardinality({m \in removed : Before(m, l)})
         IN  /\ Len(rq[r].changes) = Cardinality(removed)
             /\ \A l \in removed : rq[r].changes[rank(l)] = PathOf(l)
             /\ rq[r].changes = <<>> => ForwardedDoc(rq[r]) = ParsedInput(rq[r])

\* A log with entries of two messages and of system, in that order.
C8_Witness ==
  /\ Forwarded(rq["A"])
  /\ rq["A"].changes = <<"messages[0].content[0].cache_control",
                         "messages[1].content[0].cache_control",
                         "system[0].cache_control">>

\* C5: when the outbound request has failed with a transport error, the
\* caller has the 500 response carrying the error message and the process
\* has not terminated.
C5_TransportErrorAnswered ==
  \A r \in Reqs :
    rq[r].up = "failed"
      => /\ ~Crashed
         /\ rq[r].resHeads = <<[statusCode |-> 500, headers |-> NoHeaders]>>
         /\ rq[r].resBody = <<ErrorBody(rq[r].error)>>
         /\ rq[r].resEnded

\* C6: once the body of a request that parses as JSON was received, exactly
\* one outbound request exists for it, whatever the upstream did since.
C6_ExactlyOneOutbound ==
  \A r \in Reqs :
    (BodyReceived(rq[r]) /\ JSONParse(rq[r].body).ok) => Len(rq[r].outbound) = 1

\* C9: every outbound request goes to HOSTNAME on port 443 with the inbound
\* method and path; its headers are the inbound headers but for
\* content-length, the number of bytes written, and host, HOSTNAME; the
\* bytes written are the serialization of the stripped document.
C9_OutboundRequest ==
  \A r \in Reqs :
    \A n \in 1..Len(rq[r].outbound) :
      LET o == rq[r].outbound[n]
          inbound == InboundOf(r)
      IN  /\ o.options.hostname = HOSTNAME
          /\ o.options.port = 443
          /\ o.options.method = inbound.method
          /\ o.options.path = inbound.url
          /\ DOMAIN o.options.headers = DOMAIN rq[r].headers \cup {"content-length", "host"}
          /\ o.options.headers["content-length"] = ToString(Len(o.written))
          /\ o.options.headers["host"] = HOSTNAME
          /\ \A h \in DOMAIN rq[r].headers \ {"content-length", "host"} :
               o.options.headers[h] = rq[r].headers[h]
          /\ \A h \in DOMAIN inbound.headers \ {"content-length", "host"} :
               o.options.headers[h] = inbound.headers[h]
          /\ o.written = Utf8Encode(JSONStringify(rq[r].data))
          /\ o.ended

\* A body with a two-byte character went out stripped: its content-length
\* counts the bytes written and is not the inbound one, its host is the
\* upstream's, its authorization the caller's.
C9_Witness ==
  /\ Forwarded(rq["A"])
  /\ ParsedInput(rq["A"]) = DocAccent
  /\ rq["A"].outbound[1].options.headers["content-length"]
       = ToString(Len(JSONStringify(rq["A"].data)) + 1)
  /\ rq["A"].outbound[1].options.headers["content-length"] # rq["A"].headers["content-length"]
  /\ rq["A"].outbound[1].options.headers["host"] = HOSTNAME
  /\ rq["A"].outbound[1].options.headers["host"] # InboundPost.headers["host"]
  /\ rq["A"].outbound[1].options.headers["authorization"] = "Bearer dapi-token"

\* What the upstream and the caller observe of a request.
Observed(q) ==
  [outbound |-> q.outbound, resHeads |-> q.resHeads, resBody |-> q.resBody,
   resEnded |-> q.resEnded, uncaught |-> q.uncaught]

\* C10: the run with VERBOSE on and the run with VERBOSE off show the
\* upstream and the caller the same outbound request, status, headers and
\* body at every step; and once the verbose run has finished decompressing
\* its copy of the response, failed or not, recognized coding or not, the
\* relayed response is whole and the process goes on.
C10_VerbosityUnobservable ==
  /\ Observed(rq["A"]) = Observed(rq["B"])
  /\ rq["A"].decompress \in {"failed", "done"}
       => /\ Relayed(rq["A"])
          /\ rq["A"].resBody = rq["A"].upstream.chunks
          /\ rq["A"].resEnded
          /\ ~Crashed

\* The verbose run failed to decompress its copy of a relayed response, and
\* logged what the quiet run did not.
C10_Witness ==
  /\ rq["A"].decompress = "failed"
  /\ rq["B"].decompress = "none"
  /\ rq["A"].resEnded /\ rq["B"].resEnded
  /\ rq["A"].log # rq["B"].log

\* A request between its arrival and the end of its exchange.
InFlight(q) == q.st = "receiving" \/ q.up \in {"pending", "streaming"}

\* C11: a parse error or an upstream error of one request leaves every
\* other request in flight to go on to its own outcome: the process that
\* runs its callbacks is still there.
C11_FailureIsolated ==
  \A r, s \in Reqs :
    (r # s /\ (rq[r].st = "rejected" \/ rq[r].up = "failed") /\ InFlight(rq[s]))
      => ~Crashed

\* C12: while the upstream call of A is pending, the next callback of B is
\* enabled whatever B is at: its arrival, a chunk of its body, its upstream
\* response, a chunk of that response, its end.
C12_PendingDoesNotBlock ==
  rq["A"].up = "pending"
    => /\ rq["B"].st = "idle" => ENABLED Connection("B")
       /\ (rq["B"].st = "receiving" /\ rq["B"].off < Len(rq["B"].raw))
            => ENABLED ReqOnData("B")
       /\ rq["B"].up = "pending" => ENABLED ProxyReqOnResponse("B")
       /\ rq["B"].up = "streaming"
            => ENABLED ProxyResOnData("B") \/ ENABLED ProxyResOnEnd("B")

\* B, which arrived after A, was stripped, forwarded and answered in full
\* while A still waits for its upstream.
C12_Witness ==
  /\ rq["A"].up = "pending"
  /\ rq["A"].resHeads = <<>>
  /\ rq["B"].changes # <<>>
  /\ rq["B"].up = "ended"
  /\ Relayed(rq["B"])
  /\ rq["B"].resEnded

\* C13: a 400 is answered only to a body that is not JSON; a body that
\* parses, whatever the shape of its messages, content and system, is
\* forwarded with the misshapen field left as it is.
C13_OnlyInvalidJsonRejected ==
  \A r \in Reqs :
    (BodyReceived(rq[r]) /\ JSONParse(rq[r].body).ok)
      => /\ rq[r].st = "forwarded"
         /\ rq[r].resHeads = <<>>
         /\ ~StripCacheControl(ParsedInput(rq[r])).threw

\* C14: nothing goes upstream or to the caller while the body is being
\* received; the one outbound request exists only once the whole body was
\* received, parsed and stripped, and carries the serialization of the
\* stripped document; an upstream response exists only for a forwarded
\* request; and the caller has a head only once the upstream head arrived,
\* the upstream failed or the body was rejected.
C14_StepsInOrder ==
  \A r \in Reqs :
    LET q == rq[r]
        s == StripCacheControl(JSONParse(q.body).val)
    IN  /\ q.st \in {"idle", "receiving"}
             => q.outbound = <<>> /\ q.resHeads = <<>> /\ q.resBody = <<>>
        /\ q.outbound # <<>>
             => /\ q.off = Len(q.raw)
                /\ JSONParse(q.body).ok
                /\ ~s.threw
                /\ q.outbound = <<[options |-> q.outbound[1].options,
                                   written |-> Utf8Encode(JSONStringify(s.data)),
                                   ended |-> TRUE]>>
        /\ (q.upstream # NoResponse \/ q.up # "none") => q.outbound # <<>>
        /\ q.resHeads # <<>>
             => q.upstream # NoResponse \/ q.up = "failed" \/ q.st = "rejected"

\* A request went through all the steps: body in several chunks, fields
\* stripped, forwarded, relayed to the end.
C14_Witness ==
  \E r \in Reqs :
    /\ rq[r].changes # <<>>
    /\ Len(rq[r].outbound) = 1
    /\ rq[r].up = "ended"
    /\ rq[r].resEnded

\* C15: once the upstream head arrived, the caller's head is the upstream
\* status and headers, the caller's body is the upstream chunks delivered
\* so far, in order, each once; the response is not ended while the
\* upstream streams and is ended, with every chunk, when the upstream ended.
C15_RelayVerbatim ==
  \A r \in Reqs :
    LET q == rq[r]
    IN  /\ q.resBody # <<>> => q.resHeads # <<>>
        /\ q.upstream # NoResponse
             => /\ q.resHeads = <<[statusCode |-> q.upstream.statusCode,
                                   headers |-> q.upstream.headers]>>
                /\ q.resBody = SubSeq(q.upstream.chunks, 1, q.delivered)
                /\ q.up = "streaming" => ~q.resEnded
                /\ q.up = "ended"
                     => q.resBody = q.upstream.chunks /\ q.resEnded

\* A two-chunk upstream body with status 200 and a content-encoding header
\* was relayed to its end.
C15_Witness ==
  \E r \in Reqs :
    /\ rq[r].up = "ended"
    /\ Len(rq[r].upstream.chunks) = 2
    /\ rq[r].resBody = rq[r].upstream.chunks
    /\ rq[r].resHeads[1].statusCode = 200
    /\ rq[r].resHeads[1].headers["content-encoding"] = "gzip"
    /\ rq[r].resEnded

\* C16: once a request's body was rejected, or its upstream response has
\* ended, or its upstream has raised an error, its caller-facing response
\* is ended.
C16_ResponseEnded ==
  \A r \in Reqs :
    (rq[r].st = "rejected" \/ rq[r].up \in {"ended", "failed"}) => rq[r].resEnded

\* C17: however the bytes of the body were cut into chunks, the accumulated
\* body is the decoding of the whole byte sequence, and so are the parse
\* outcome and the forwarded body those of the whole.
C17_ChunkingIrrelevant ==
  \A r \in Reqs :
    LET whole == JSONParse(BufferToString(rq[r].raw))
    IN  BodyReceived(rq[r])
          => /\ rq[r].body = BufferToString(rq[r].raw)
             /\ (rq[r].st = "forwarded")
                  = (whole.ok /\ ~StripCacheControl(whole.val).threw)
             /\ rq[r].st = "forwarded"
                  => rq[r].outbound[1].written
                       = Utf8Encode(JSONStringify(StripCacheControl(whole.val).data))

====
